---- MODULE Spec2Model ----
(***************************************************************************)
(* Permission-matrix smoke test (test/smoke.py): the driver main, the      *)
(* scheme run run_mode, the dispatcher test_endpoint, the evaluator        *)
(* result_matches_expectation and the HAWK key loading, as a state machine.*)
(***************************************************************************)
EXTENDS Integers, Sequences, FiniteSets, TLC

(* ------------------------------ bounds -------------------------------- *)

\* Status codes 0..MaxStatusCode are enumerated for the evaluator alone.
MaxStatusCode == 599

\* At most this many cells of one scheme run get an outcome other than the
\* gateway's normal answer (200 on an allowed cell, 403 on a denied one).
MaxAnomalies == 2

\* The key-value file holds at most this many lines.
MaxEnvLines == 2

(* ------------------------- module-level tables ------------------------ *)

SERVICES == <<"service_a", "service_b", "service_c">>

ENDPOINTS == <<"sentiment", "regression", "classification">>

APISIX_BASE_URL == "http://localhost:9080"

HAWK_BASE_URL == "http://localhost:9081"

\* A slip of the hand in the table: service_c allowed on regression.
EXPECTED_PERMISSIONS_typo ==
    [service_a |-> [sentiment |-> TRUE,  regression |-> TRUE,  classification |-> FALSE],
     service_b |-> [sentiment |-> FALSE, regression |-> FALSE, classification |-> TRUE],
     service_c |-> [sentiment |-> TRUE,  regression |-> TRUE,  classification |-> TRUE]]

EXPECTED_PERMISSIONS ==
    [service_a |-> [sentiment |-> TRUE,  regression |-> TRUE,  classification |-> FALSE],
     service_b |-> [sentiment |-> FALSE, regression |-> FALSE, classification |-> TRUE],
     service_c |-> [sentiment |-> TRUE,  regression |-> FALSE, classification |-> TRUE]]

\* The module-level dict EXPECTED_PERMISSIONS as it is now: a dict can be
\* written to, and the reporter reads it when it runs.
VARIABLE permissions

HAWK_CREDENTIALS ==
    [service_a |-> [id |-> "service_a_id", env |-> "SERVICE_A_HAWK_KEY"],
     service_b |-> [id |-> "service_b_id", env |-> "SERVICE_B_HAWK_KEY"],
     service_c |-> [id |-> "service_c_id", env |-> "SERVICE_C_HAWK_KEY"]]

Range(s) == {s[i] : i \in DOMAIN s}

ServiceSet == Range(SERVICES)

EndpointSet == Range(ENDPOINTS)

\* A slip: the loops nested the other way round, endpoints outermost.
CellAt_endpoints_first(k) ==
    <<SERVICES[((k - 1) % Len(SERVICES)) + 1],
      ENDPOINTS[((k - 1) \div Len(SERVICES)) + 1]>>

\* The nested loops "for service in SERVICES: for endpoint in ENDPOINTS":
\* the k-th iteration (1-based) visits this cell.
CellAt(k) ==
    <<SERVICES[((k - 1) \div Len(ENDPOINTS)) + 1],
      ENDPOINTS[((k - 1) % Len(ENDPOINTS)) + 1]>>

NumCells == Len(SERVICES) * Len(ENDPOINTS)

(* ----------------------------- evaluator ------------------------------ *)

\* A slip in the denied branch: anything but 200 counts as denied.
result_matches_expectation_not200(status_code, expected_allowed) ==
    IF expected_allowed
    THEN status_code = 200
    ELSE status_code # 200

result_matches_expectation(status_code, expected_allowed) ==
    IF expected_allowed
    THEN status_code = 200
    ELSE status_code \in {401, 403}

(* ----------------------------- dispatcher ----------------------------- *)

\* EndpointResult(status_code, status_text, body)
EndpointResult(code, text, body) ==
    [status_code |-> code, status_text |-> text, body |-> body]

\* What httpx.post gives back: a response (any status, its reason phrase and
\* text), or a raised httpx.RequestError subclass carrying a message.
ResponseCodes == {200, 401, 403, 500}

ReasonPhrase(code) ==
    CASE code = 200 -> "OK"
      [] code = 401 -> "Unauthorized"
      [] code = 403 -> "Forbidden"
      [] code = 500 -> "Internal Server Error"
      [] OTHER -> ""

ResponseText(code) ==
    CASE code = 200 -> "{\"label\":\"positive\",\"score\":0.95}"
      [] code = 401 -> "{\"message\":\"Missing authorization\"}"
      [] code = 403 -> "{\"message\":\"Forbidden\"}"
      [] OTHER -> "{\"error_msg\":\"upstream error\"}"

Responses ==
    {[kind |-> "response", status_code |-> c,
      reason_phrase |-> ReasonPhrase(c), text |-> ResponseText(c)] : c \in ResponseCodes}

\* Connection refused, DNS and TLS failures surface as ConnectError, an
\* expired 5 s timeout as ReadTimeout (both httpx.RequestError).
RequestErrors ==
    {[kind |-> "error", type |-> "ConnectError", message |-> "[Errno 111] Connection refused"],
     [kind |-> "error", type |-> "ReadTimeout", message |-> "timed out"]}

Outcomes == Responses \cup RequestErrors

\* "timeout=5.0", in seconds.
RequestTimeout == 5

\* What the other end may do with a request: answer, fail, or stay silent
\* after the connection is made.
ServerBehaviours == Outcomes \cup {[kind |-> "silent"]}

\* A slip: "timeout=None"; the call blocks for as long as the server is silent.
httpx_post_no_timeout(behaviour, timeout) ==
    IF behaviour.kind = "silent"
    THEN [kind |-> "blocked"]
    ELSE behaviour

\* httpx.post(..., timeout=timeout): a silent server makes httpx raise
\* ReadTimeout once the timeout has run out; only without a timeout (written 0
\* here) the call blocks.
httpx_post(behaviour, timeout) ==
    IF behaviour.kind = "silent"
    THEN IF timeout > 0
         THEN [kind |-> "error", type |-> "ReadTimeout", message |-> "timed out"]
         ELSE [kind |-> "blocked"]
    ELSE behaviour

\* The exception classes "except httpx.RequestError" catches: httpx raises
\* every transport failure as a subclass of RequestError.
RequestErrorTypes ==
    {"ConnectError", "ConnectTimeout", "ReadTimeout", "WriteTimeout", "PoolTimeout",
     "ReadError", "WriteError", "CloseError", "ProxyError", "UnsupportedProtocol",
     "LocalProtocolError", "RemoteProtocolError", "DecodingError", "TooManyRedirects"}

\* A narrower handler, "except httpx.ConnectError": timeouts are not caught.
HttpResult_connect_only(outcome) ==
    IF outcome.kind = "response"
    THEN [raised |-> FALSE,
          value |-> EndpointResult(outcome.status_code, outcome.reason_phrase, outcome.text)]
    ELSE IF outcome.type = "ConnectError"
         THEN [raised |-> FALSE,
               value |-> EndpointResult(0, "Error: " \o outcome.type, outcome.message)]
         ELSE [raised |-> TRUE, error |-> outcome.type]

\* The try/except around httpx.post in test_endpoint: the EndpointResult
\* returned, or the exception that is not caught.
HttpResult(outcome) ==
    IF outcome.kind = "response"
    THEN [raised |-> FALSE,
          value |-> EndpointResult(outcome.status_code, outcome.reason_phrase, outcome.text)]
    ELSE IF outcome.type \in RequestErrorTypes
         THEN [raised |-> FALSE,
               value |-> EndpointResult(0, "Error: " \o outcome.type, outcome.message)]
         ELSE [raised |-> TRUE, error |-> outcome.type]

(* ------------------------- HAWK key environment ----------------------- *)

\* os.environ is a function from the names that are set to their values;
\* "if os.getenv(name)" is true when the name is set to a non-empty string.
getenv_truthy(environ, name) ==
    name \in DOMAIN environ /\ environ[name] # ""

\* os.environ[name] = value
setenv(environ, name, value) ==
    [n \in DOMAIN environ \cup {name} |-> IF n = name THEN value ELSE environ[n]]

\* A slip: the validation loop stops one consumer short of SERVICES.
HawkEnvNames_all_but_last ==
    [i \in 1..(Len(SERVICES) - 1) |-> HAWK_CREDENTIALS[SERVICES[i]].env]

\* "for service in SERVICES: env_var = HAWK_CREDENTIALS[service]["env"]"
HawkEnvNames == [i \in DOMAIN SERVICES |-> HAWK_CREDENTIALS[SERVICES[i]].env]

\* A slip: "if os.getenv(env_var) is None", which lets an empty value pass.
validate_hawk_key_env_is_none(environ) ==
    SelectSeq(HawkEnvNames, LAMBDA env_var : env_var \notin DOMAIN environ)

validate_hawk_key_env(environ) ==
    SelectSeq(HawkEnvNames, LAMBDA env_var : ~getenv_truthy(environ, env_var))

\* A line of text is a sequence of pieces: "=", " " and the double quote are
\* always pieces of their own, the other pieces are runs of ordinary characters.
QUOTE == "\""

RECURSIVE Join(_)
Join(pieces) ==
    IF pieces = <<>> THEN "" ELSE Head(pieces) \o Join(Tail(pieces))

RECURSIVE LStrip(_)
LStrip(pieces) ==
    IF pieces # <<>> /\ Head(pieces) = " " THEN LStrip(Tail(pieces)) ELSE pieces

RECURSIVE RStrip(_)
RStrip(pieces) ==
    IF pieces # <<>> /\ pieces[Len(pieces)] = " "
    THEN RStrip(SubSeq(pieces, 1, Len(pieces) - 1))
    ELSE pieces

\* str.strip()
Strip(pieces) == RStrip(LStrip(pieces))

\* '"=" in line'
HasEquals(line) == \E i \in DOMAIN line : line[i] = "="

\* line.split("=", 1): the cut is at the first "=".
FirstEquals(line) ==
    CHOOSE i \in DOMAIN line : line[i] = "=" /\ \A j \in 1..(i - 1) : line[j] # "="

\* 'if value.startswith(QUOTE) and value.endswith(QUOTE): value = value[1:-1]'
Unquote(value) ==
    IF value # <<>> /\ Head(value) = QUOTE /\ value[Len(value)] = QUOTE
    THEN SubSeq(value, 2, Len(value) - 1)
    ELSE value

required_vars == {HAWK_CREDENTIALS[service].env : service \in ServiceSet}

\* A slip: the "key not in required_vars" test left out, so that any
\* KEY=value line of the file is exported.
RECURSIVE LoadLines_any_key(_, _, _)
LoadLines_any_key(lines, environ, loaded) ==
    IF lines = <<>>
    THEN [environ |-> environ, loaded |-> loaded, assigned |-> <<>>]
    ELSE LET line == Head(lines)
         IN  IF ~HasEquals(line)
             THEN LoadLines_any_key(Tail(lines), environ, loaded)
             ELSE LET cut == FirstEquals(line)
                      key == Join(Strip(SubSeq(line, 1, cut - 1)))
                      raw_value == SubSeq(line, cut + 1, Len(line))
                      value == Join(Unquote(Strip(raw_value)))
                  IN  IF getenv_truthy(environ, key)
                      THEN LoadLines_any_key(Tail(lines), environ, loaded)
                      ELSE LET rest == LoadLines_any_key(Tail(lines),
                                                         setenv(environ, key, value),
                                                         loaded + 1)
                           IN  [rest EXCEPT !.assigned = <<<<key, value>>>> \o @]

\* The body of "for line in env_file.read_text().splitlines()". Besides the
\* environment afterwards and the count, the result lists the assignments
\* "os.environ[key] = value" in the order they were made.
RECURSIVE LoadLines(_, _, _)
LoadLines(lines, environ, loaded) ==
    IF lines = <<>>
    THEN [environ |-> environ, loaded |-> loaded, assigned |-> <<>>]
    ELSE LET line == Head(lines)
         IN  IF ~HasEquals(line)
             THEN LoadLines(Tail(lines), environ, loaded)
             ELSE LET cut == FirstEquals(line)
                      key == Join(Strip(SubSeq(line, 1, cut - 1)))
                      raw_value == SubSeq(line, cut + 1, Len(line))
                      value == Join(Unquote(Strip(raw_value)))
                  IN  IF key \notin required_vars \/ getenv_truthy(environ, key)
                      THEN LoadLines(Tail(lines), environ, loaded)
                      ELSE LET rest == LoadLines(Tail(lines),
                                                 setenv(environ, key, value),
                                                 loaded + 1)
                           IN  [rest EXCEPT !.assigned = <<<<key, value>>>> \o @]

\* env_file is [exists, lines]; the result is the environment afterwards,
\* the returned count and the assignments made.
load_hawk_keys_from_env_file(env_file, environ) ==
    IF ~env_file.exists
    THEN [environ |-> environ, loaded |-> 0, assigned |-> <<>>]
    ELSE LoadLines(env_file.lines, environ, 0)

\* mohawk's Sender(...).request_header: a value over the credentials, the
\* method, the path and the content, with a nonce that differs on every call.
HawkHeader(credentials, hawk_key, path, method, nonce) ==
    [scheme |-> "Hawk", id |-> credentials.id, key |-> hawk_key,
     path |-> path, method |-> method, nonce |-> nonce]

\* build_hawk_headers: [raised |-> TRUE] stands for the RuntimeError.
build_hawk_headers(environ, service, path, method, nonce) ==
    LET credentials == HAWK_CREDENTIALS[service]
    IN  IF ~getenv_truthy(environ, credentials.env)
        THEN [raised |-> TRUE, error |-> "RuntimeError", missing_var |-> credentials.env]
        ELSE [raised |-> FALSE,
              Authorization |-> HawkHeader(credentials, environ[credentials.env],
                                           path, method, nonce)]

(* --------------------------- bearer tokens ---------------------------- *)

\* jwt.encode of the claim set with the consumer's private key (the nbf and
\* exp timestamps are left out: no claim reads them).
generate_jwt_token(service_name) ==
    [scheme |-> "JWT", sub |-> service_name, key |-> "iss_" \o service_name,
     signed_with |-> "keys/" \o service_name \o "-private.pem"]

\* key_path.read_text() raises FileNotFoundError when the file is absent; the
\* dict comprehension of run_mode stops at the first consumer, in SERVICES
\* order, whose file is absent.
FirstMissingKey(key_files) ==
    LET i == CHOOSE k \in DOMAIN SERVICES :
                 /\ SERVICES[k] \notin key_files
                 /\ \A j \in 1..(k - 1) : SERVICES[j] \in key_files
    IN  SERVICES[i]

\* A slip: a consumer whose key file is absent is passed over, and the
\* tokens dict holds the other consumers only.
GenerateTokens_skip_missing(key_files) ==
    [raised |-> FALSE,
     tokens |-> [service \in ServiceSet \cap key_files |-> generate_jwt_token(service)]]

\* A slip: one token, the first consumer's, handed to every consumer.
GenerateTokens_shared(key_files) ==
    IF ServiceSet \subseteq key_files
    THEN [raised |-> FALSE,
          tokens |-> [service \in ServiceSet |-> generate_jwt_token(SERVICES[1])]]
    ELSE [raised |-> TRUE, error |-> "FileNotFoundError",
          service |-> FirstMissingKey(key_files)]

GenerateTokens(key_files) ==
    IF ServiceSet \subseteq key_files
    THEN [raised |-> FALSE,
          tokens |-> [service \in ServiceSet |-> generate_jwt_token(service)]]
    ELSE [raised |-> TRUE, error |-> "FileNotFoundError",
          service |-> FirstMissingKey(key_files)]

(* ------------------------------ reporter ------------------------------ *)

\* A slip: the table cell decided by a rule of its own, "denied means anything
\* but 200", rather than by result_matches_expectation.
format_result_own_rule(status_code, expected_allowed) ==
    IF status_code = 0
    THEN [marker |-> "? ERR", colour |-> "yellow", code |-> 0]
    ELSE IF (expected_allowed /\ status_code = 200) \/ (~expected_allowed /\ status_code # 200)
         THEN [marker |-> "check", colour |-> "green", code |-> status_code]
         ELSE [marker |-> "cross", colour |-> "red", code |-> status_code]

format_result(status_code, expected_allowed) ==
    IF status_code = 0
    THEN [marker |-> "? ERR", colour |-> "yellow", code |-> 0]
    ELSE IF result_matches_expectation(status_code, expected_allowed)
         THEN [marker |-> "check", colour |-> "green", code |-> status_code]
         ELSE [marker |-> "cross", colour |-> "red", code |-> status_code]

\* The tuple appended to mismatches.
MismatchRecord(service, endpoint, expected_allowed, endpoint_result) ==
    [service |-> service, endpoint |-> endpoint,
     expected_allowed |-> expected_allowed, endpoint_result |-> endpoint_result]

\* A slip: cells with the sentinel status 0 are passed over as indeterminate,
\* the way format_result shows them.
RECURSIVE CollectMismatches_skip_errors(_, _)
CollectMismatches_skip_errors(k, res) ==
    IF k > NumCells
    THEN <<>>
    ELSE LET service == CellAt(k)[1]
             endpoint == CellAt(k)[2]
             endpoint_result == res[CellAt(k)]
             expected_allowed == permissions[service][endpoint]
         IN  (IF /\ endpoint_result.status_code # 0
                 /\ ~result_matches_expectation(endpoint_result.status_code, expected_allowed)
              THEN <<MismatchRecord(service, endpoint, expected_allowed, endpoint_result)>>
              ELSE <<>>)
             \o CollectMismatches_skip_errors(k + 1, res)

\* The two loops that fill mismatches, from iteration k on.
RECURSIVE CollectMismatches(_, _)
CollectMismatches(k, res) ==
    IF k > NumCells
    THEN <<>>
    ELSE LET service == CellAt(k)[1]
             endpoint == CellAt(k)[2]
             endpoint_result == res[CellAt(k)]
             expected_allowed == permissions[service][endpoint]
         IN  (IF ~result_matches_expectation(endpoint_result.status_code, expected_allowed)
              THEN <<MismatchRecord(service, endpoint, expected_allowed, endpoint_result)>>
              ELSE <<>>)
             \o CollectMismatches(k + 1, res)

\* One block of "Debug information for mismatches".
DebugBlock(m) ==
    [Service |-> m.service,
     Endpoint |-> "/predict/" \o m.endpoint,
     Expected |-> IF m.expected_allowed THEN "Allowed (200)" ELSE "Denied (401/403)",
     ActualStatus |-> m.endpoint_result.status_code,
     ActualText |-> m.endpoint_result.status_text,
     ResponseBody |-> m.endpoint_result.body]

\* A slip: the blocks printed newest first.
DebugBlocks_reversed(records) ==
    [i \in DOMAIN records |-> DebugBlock(records[Len(records) + 1 - i])]

\* "for ... in mismatches: console.print(...)": one block per record, in list order.
DebugBlocks(records) == [i \in DOMAIN records |-> DebugBlock(records[i])]

\* The table rows: one cell per result.
RenderTable(res) ==
    [cell \in DOMAIN res |->
        format_result(res[cell].status_code, permissions[cell[1]][cell[2]])]

(* ------------------------------- driver ------------------------------- *)

\* A slip: the usage check left out.
NoSchemeSelected_never(apisix_flag, hawk_flag) == FALSE

\* "if not apisix and not hawk"
NoSchemeSelected(apisix_flag, hawk_flag) == ~apisix_flag /\ ~hawk_flag

\* A slip: "overall_success = run_mode(...)", the last run alone decides.
Aggregate_last_run(run_result, overall) == run_result

\* "overall_success = run_mode(...) and overall_success": run_mode has
\* already run when the conjunction is taken.
Aggregate(run_result, overall) == run_result /\ overall

\* A slip: main returns normally whatever overall_success is.
FinalExitCode_always_zero(overall) == 0

\* "if not overall_success: raise typer.Exit(code=1)", else a normal return.
FinalExitCode(overall) == IF ~overall THEN 1 ELSE 0

\* The exit status of the interpreter when an exception leaves main uncaught.
UncaughtExitCode == 1

\* typer.Exit(code=2) for the usage error.
UsageExitCode == 2

(* ------------------------------- inputs ------------------------------- *)

\* Lines the key-value file may hold (as pieces).
EnvLineChoices ==
    {<<"SERVICE_A_HAWK_KEY", "=", "filekey">>,
     <<" ", "SERVICE_B_HAWK_KEY", " ", "=", " ", QUOTE, "filekey", QUOTE, " ">>,
     <<"SERVICE_C_HAWK_KEY", "=", "filekey">>,
     <<"SERVICE_C_HAWK_KEY", "=", QUOTE, QUOTE>>,
     <<"#", " ", "local", " ", "keys">>,
     <<"OTHER_KEY", "=", "filekey">>}

SeqsUpTo(S, n) == UNION {[1..k -> S] : k \in 0..n}

EnvFiles ==
    {[exists |-> FALSE, lines |-> <<>>]}
    \cup {[exists |-> TRUE, lines |-> ls] : ls \in SeqsUpTo(EnvLineChoices, MaxEnvLines)}

\* Environments the process may start with: PATH is set, and each shared-key
\* variable is unset, set to the empty string or set to a key.
StartEnvironments ==
    {[n \in {"PATH"} \cup DOMAIN keys |-> IF n = "PATH" THEN "/usr/bin" ELSE keys[n]] :
        keys \in UNION {[names -> {"", "envkey"}] : names \in SUBSET required_vars}}

\* The gateway's normal answer on a cell.
NormalStatus(service, endpoint) ==
    IF EXPECTED_PERMISSIONS[service][endpoint] THEN 200 ELSE 403

IsAnomaly(outcome, service, endpoint) ==
    ~(outcome.kind = "response" /\ outcome.status_code = NormalStatus(service, endpoint))

\* The environments the whole-driver specification starts from: no shared key
\* set, every shared key set, and service_a's key set to the empty string.
DriverEnvironments ==
    {e \in StartEnvironments :
        \/ DOMAIN e = {"PATH"}
        \/ \A n \in required_vars : n \in DOMAIN e /\ e[n] = "envkey"
        \/ /\ required_vars \subseteq DOMAIN e
           /\ e["SERVICE_A_HAWK_KEY"] = ""
           /\ \A n \in required_vars \ {"SERVICE_A_HAWK_KEY"} : e[n] = "envkey"}

(* -------------------------------- state ------------------------------- *)

VARIABLES
    apisix,           \* the --apisix flag
    hawk,             \* the --hawk flag
    pc,               \* where main is: "main", "apisix", "hawk", "final", "done"
    stage,            \* where the current run_mode call is: "none", "matrix", "returned"
    environ,          \* os.environ
    overall_success,  \* main's overall_success
    exit_code,        \* the process exit status, -1 while running
    raised,           \* the exception that left main uncaught, if any
    tokens,           \* run_mode's tokens
    loaded_count,     \* run_mode's loaded_count
    missing_vars,     \* run_mode's missing_vars, as printed
    results,          \* run_mode's results, keyed by <<service, endpoint>>
    done_cells,       \* completed iterations of the dispatch loops
    table,            \* the rendered table
    mismatches,       \* run_mode's mismatches
    debug_blocks,     \* the debug blocks printed for the mismatches
    ret,              \* run_mode's return value
    sent,             \* every request handed to httpx.post, in order
    outcome,          \* what httpx.post did on the last request of this run
    started,          \* the modes run_mode was called with
    tokens_made,      \* calls of generate_jwt_token that returned
    headers_made,     \* calls of build_hawk_headers that returned
    anomalies,        \* anomalous outcomes in the current run
    off_matrix,       \* the modes in which some cell's status is off the canonical matrix
    eval_in,          \* evaluator harness: the arguments
    eval_out,         \* evaluator harness: the results
    load_in,          \* key-file harness: the file and the environment before the call
    load_out          \* key-file harness: what load_hawk_keys_from_env_file returned

main_vars == <<apisix, hawk, pc, overall_success, exit_code, raised>>

run_vars == <<stage, tokens, loaded_count, missing_vars, results, done_cells,
              table, mismatches, debug_blocks, ret, outcome, anomalies>>

world_vars == <<environ, sent, started, tokens_made, headers_made, off_matrix, permissions>>

eval_vars == <<eval_in, eval_out, load_in, load_out>>

vars == <<main_vars, run_vars, world_vars, eval_vars>>

NoException == [raised |-> FALSE]

NoOutcome == [kind |-> "none"]

NoArgs == [given |-> FALSE]

\* run_mode's locals when no call is active.
NoRun ==
    /\ stage = "none"
    /\ tokens = <<>>
    /\ loaded_count = 0
    /\ missing_vars = <<>>
    /\ results = <<>>
    /\ done_cells = 0
    /\ table = <<>>
    /\ mismatches = <<>>
    /\ debug_blocks = <<>>
    /\ ret = FALSE
    /\ outcome = NoOutcome
    /\ anomalies = 0

NoRunNext ==
    /\ stage' = "none"
    /\ tokens' = <<>>
    /\ loaded_count' = 0
    /\ missing_vars' = <<>>
    /\ results' = <<>>
    /\ done_cells' = 0
    /\ table' = <<>>
    /\ mismatches' = <<>>
    /\ debug_blocks' = <<>>
    /\ ret' = FALSE
    /\ outcome' = NoOutcome
    /\ anomalies' = 0

\* The process as main is entered, with the given flags and environment.
Started(apisix_flags, hawk_flags, environments) ==
    /\ apisix \in apisix_flags
    /\ hawk \in hawk_flags
    /\ pc = "main"
    /\ environ \in environments
    /\ overall_success = TRUE
    /\ exit_code = -1
    /\ raised = NoException
    /\ NoRun
    /\ sent = <<>>
    /\ started = {}
    /\ tokens_made = 0
    /\ headers_made = 0
    /\ off_matrix = {}
    /\ permissions = EXPECTED_PERMISSIONS

Init ==
    /\ Started(BOOLEAN, BOOLEAN, DriverEnvironments)
    /\ eval_in = NoArgs
    /\ eval_out = NoArgs
    /\ load_in = NoArgs
    /\ load_out = NoArgs

(* ------------------------------ actions ------------------------------- *)

Modes == {"apisix", "hawk"}

\* The next "if apisix:" / "if hawk:" of main whose flag is set, after position p.
NextStop(p) ==
    IF p = "main" /\ apisix THEN "apisix"
    ELSE IF p \in {"main", "apisix"} /\ hawk THEN "hawk"
    ELSE "final"

\* An exception leaves run_mode and main: the process ends.
Crash(exception) ==
    /\ pc' = "done"
    /\ exit_code' = UncaughtExitCode
    /\ raised' = exception
    /\ NoRunNext
    /\ UNCHANGED <<apisix, hawk, overall_success>>

\* main up to the first scheme run: the usage check, Console(), overall_success.
MainStart ==
    /\ pc = "main"
    /\ IF NoSchemeSelected(apisix, hawk)
       THEN /\ pc' = "done"
            /\ exit_code' = UsageExitCode
            /\ UNCHANGED overall_success
       ELSE /\ pc' = NextStop("main")
            /\ overall_success' = TRUE
            /\ UNCHANGED exit_code
    /\ UNCHANGED <<apisix, hawk, raised, run_vars, world_vars, eval_vars>>

\* run_mode(mode="apisix") up to the dispatch loops: the tokens of all services.
SetupApisix ==
    /\ pc = "apisix"
    /\ stage = "none"
    /\ started' = started \cup {"apisix"}
    /\ \E key_files \in SUBSET ServiceSet :
          LET made == GenerateTokens(key_files)
          IN  IF made.raised
              THEN /\ Crash([raised |-> TRUE, error |-> made.error, service |-> made.service])
                   /\ tokens_made' = tokens_made +
                         Cardinality({i \in DOMAIN SERVICES :
                                         \A j \in 1..i : SERVICES[j] \in key_files})
              ELSE /\ tokens' = made.tokens
                   /\ tokens_made' = tokens_made + Len(SERVICES)
                   /\ stage' = "matrix"
                   /\ results' = <<>>
                   /\ done_cells' = 0
                   /\ UNCHANGED <<main_vars, loaded_count, missing_vars, table,
                                  mismatches, debug_blocks, ret, outcome, anomalies>>
    /\ UNCHANGED <<environ, sent, headers_made, off_matrix, permissions, eval_vars>>

\* run_mode(mode="hawk") up to the dispatch loops: the key file, the validation.
SetupHawk ==
    /\ pc = "hawk"
    /\ stage = "none"
    /\ started' = started \cup {"hawk"}
    /\ \E env_file \in EnvFiles :
          LET load == load_hawk_keys_from_env_file(env_file, environ)
              missing == validate_hawk_key_env(load.environ)
          IN  /\ environ' = load.environ
              /\ loaded_count' = load.loaded
              /\ missing_vars' = missing
              /\ stage' = IF missing # <<>> THEN "returned" ELSE "matrix"
              /\ ret' = FALSE
    /\ tokens' = <<>>
    /\ results' = <<>>
    /\ done_cells' = 0
    /\ UNCHANGED <<main_vars, table, mismatches, debug_blocks, outcome, anomalies>>
    /\ UNCHANGED <<sent, tokens_made, headers_made, off_matrix, permissions, eval_vars>>

\* The yardstick of the claims about a run's outcome, not part of the program:
\* the cells the canonical permission matrix allows, and whether a status
\* agrees with the matrix on a cell (200 where allowed, 401 or 403 where denied).
CanonicalAllowed ==
    {<<"service_a", "sentiment">>, <<"service_a", "regression">>,
     <<"service_b", "classification">>,
     <<"service_c", "sentiment">>, <<"service_c", "classification">>}

OnMatrix(status_code, service, endpoint) ==
    IF <<service, endpoint>> \in CanonicalAllowed
    THEN status_code = 200
    ELSE status_code \in {401, 403}

\* One iteration of the dispatch loops: tokens.get, test_endpoint, the store.
Dispatch ==
    /\ pc \in Modes
    /\ stage = "matrix"
    /\ done_cells < NumCells
    /\ LET mode == pc
           service == CellAt(done_cells + 1)[1]
           endpoint == CellAt(done_cells + 1)[2]
           path == "/predict/" \o endpoint
           hawk_headers == build_hawk_headers(environ, service, path, "POST", headers_made + 1)
       IN  IF mode = "apisix" /\ service \notin DOMAIN tokens
           THEN /\ Crash([raised |-> TRUE, error |-> "RuntimeError", service |-> service])
                /\ UNCHANGED world_vars
           ELSE IF mode = "hawk" /\ hawk_headers.raised
           THEN /\ Crash([raised |-> TRUE, error |-> "RuntimeError", service |-> service])
                /\ UNCHANGED world_vars
           ELSE \E behaviour \in ServerBehaviours :
                   LET got == httpx_post(behaviour, RequestTimeout)
                       authorization == IF mode = "apisix"
                                        THEN tokens[service]
                                        ELSE hawk_headers.Authorization
                       base_url == IF mode = "apisix" THEN APISIX_BASE_URL ELSE HAWK_BASE_URL
                       request == [mode |-> mode, service |-> service, endpoint |-> endpoint,
                                   url |-> base_url \o path, Authorization |-> authorization]
                       result == HttpResult(got)
                   IN  IF got.kind = "blocked"
                       THEN /\ stage' = "blocked"
                            /\ sent' = Append(sent, request)
                            /\ headers_made' = IF mode = "hawk" THEN headers_made + 1
                                               ELSE headers_made
                            /\ UNCHANGED <<environ, started, tokens_made, permissions,
                                           off_matrix, main_vars, tokens, loaded_count,
                                           missing_vars, results, done_cells, table,
                                           mismatches, debug_blocks, ret, outcome,
                                           anomalies>>
                       ELSE /\ IsAnomaly(got, service, endpoint) => anomalies < MaxAnomalies
                            /\ sent' = Append(sent, request)
                            /\ headers_made' = IF mode = "hawk" THEN headers_made + 1
                                               ELSE headers_made
                            /\ UNCHANGED <<environ, started, tokens_made, permissions>>
                            /\ IF result.raised
                               THEN /\ Crash([raised |-> TRUE, error |-> result.error,
                                              service |-> service])
                                    /\ UNCHANGED off_matrix
                               ELSE /\ anomalies' = IF IsAnomaly(got, service, endpoint)
                                                    THEN anomalies + 1 ELSE anomalies
                                    /\ outcome' = got
                                    /\ results' =
                                          [cell \in DOMAIN results \cup {<<service, endpoint>>} |->
                                              IF cell = <<service, endpoint>> THEN result.value
                                              ELSE results[cell]]
                                    /\ done_cells' = done_cells + 1
                                    /\ off_matrix' =
                                          IF OnMatrix(result.value.status_code, service, endpoint)
                                          THEN off_matrix ELSE off_matrix \cup {mode}
                                    /\ UNCHANGED <<main_vars, stage, tokens, loaded_count,
                                                   missing_vars, table, mismatches,
                                                   debug_blocks, ret>>
    /\ UNCHANGED eval_vars

\* run_mode after the dispatch loops: the table, the mismatches, the summary
\* and debug output, the return value.
Report ==
    /\ pc \in Modes
    /\ stage = "matrix"
    /\ done_cells = NumCells
    /\ table' = RenderTable(results)
    /\ mismatches' = CollectMismatches(1, results)
    /\ debug_blocks' = DebugBlocks(mismatches')
    /\ ret' = (mismatches' = <<>>)
    /\ stage' = "returned"
    /\ UNCHANGED <<main_vars, tokens, loaded_count, missing_vars, results, done_cells,
                   outcome, anomalies, world_vars, eval_vars>>

\* main takes run_mode's result: "overall_success = run_mode(...) and overall_success".
Return ==
    /\ pc \in Modes
    /\ stage = "returned"
    /\ overall_success' = Aggregate(ret, overall_success)
    /\ pc' = NextStop(pc)
    /\ NoRunNext
    /\ UNCHANGED <<apisix, hawk, exit_code, raised, world_vars, eval_vars>>

\* "if not overall_success: raise typer.Exit(code=1)"
Finish ==
    /\ pc = "final"
    /\ exit_code' = FinalExitCode(overall_success)
    /\ pc' = "done"
    /\ UNCHANGED <<apisix, hawk, overall_success, raised, run_vars, world_vars, eval_vars>>

Next ==
    \/ MainStart
    \/ SetupApisix
    \/ SetupHawk
    \/ Dispatch
    \/ Report
    \/ Return
    \/ Finish

Spec == Init /\ [][Next]_vars

(* ------------------- the signed-header scheme alone -------------------- *)

\* --hawk alone, from every start environment.
InitHawk ==
    /\ Started({FALSE}, {TRUE}, StartEnvironments)
    /\ eval_in = NoArgs
    /\ eval_out = NoArgs
    /\ load_in = NoArgs
    /\ load_out = NoArgs

NextHawk ==
    \/ MainStart
    \/ SetupHawk
    \/ Dispatch
    \/ Report
    \/ Return
    \/ Finish

SpecHawk == InitHawk /\ [][NextHawk]_vars

(* -------------------------- evaluator harness ------------------------- *)

InitEval ==
    /\ Started({FALSE}, {FALSE}, {e \in StartEnvironments : DOMAIN e = {"PATH"}})
    /\ eval_in \in [given : {TRUE}, status_code : 0..MaxStatusCode, expected_allowed : BOOLEAN]
    /\ eval_out = NoArgs
    /\ load_in = NoArgs
    /\ load_out = NoArgs

\* A call of result_matches_expectation and of format_result on the arguments.
Evaluate ==
    /\ eval_in.given
    /\ ~eval_out.given
    /\ eval_out' = [given |-> TRUE,
                    matches |-> result_matches_expectation(eval_in.status_code,
                                                           eval_in.expected_allowed),
                    cell |-> format_result(eval_in.status_code, eval_in.expected_allowed)]
    /\ UNCHANGED <<main_vars, run_vars, world_vars, eval_in, load_in, load_out>>

NextEval == Evaluate

SpecEval == InitEval /\ [][NextEval]_vars

(* ---------------------------- loader harness -------------------------- *)

\* load_hawk_keys_from_env_file alone, on every start environment and every
\* key file within the bounds.
InitLoad ==
    /\ Started({FALSE}, {FALSE}, StartEnvironments)
    /\ eval_in = NoArgs
    /\ eval_out = NoArgs
    /\ load_in \in [given : {TRUE}, env_file : EnvFiles]
    /\ load_out = NoArgs

\* A call of load_hawk_keys_from_env_file; load_out keeps the environment as
\* it was before the call, the returned count and the assignments made.
Load ==
    /\ load_in.given
    /\ ~load_out.given
    /\ LET load == load_hawk_keys_from_env_file(load_in.env_file, environ)
       IN  /\ environ' = load.environ
           /\ load_out' = [given |-> TRUE, before |-> environ,
                           loaded |-> load.loaded, assigned |-> load.assigned]
    /\ UNCHANGED <<main_vars, run_vars, sent, started, tokens_made, headers_made,
                   off_matrix, permissions, eval_in, eval_out, load_in>>

NextLoad == Load

SpecLoad == InitLoad /\ [][NextLoad]_vars

(* ------------------------------- claims ------------------------------- *)

\* C1: result_matches_expectation(status_code, expected_allowed) is true
\* exactly when the verdict is allow and the status is 200, or the verdict is
\* deny and the status is 401 or 403; every other status, the sentinel 0
\* included, is a mismatch for both verdicts.
C1_VerdictRule ==
    eval_out.given =>
        /\ eval_out.matches <=>
              \/ eval_in.expected_allowed /\ eval_in.status_code = 200
              \/ ~eval_in.expected_allowed /\ eval_in.status_code \in {401, 403}
        /\ eval_in.status_code \notin {200, 401, 403} => ~eval_out.matches

C1_Witness ==
    /\ eval_out.given
    /\ eval_in.status_code = 0
    /\ ~eval_in.expected_allowed
    /\ ~eval_out.matches

\* The cell of the request sent last.
LastCell == <<sent[Len(sent)].service, sent[Len(sent)].endpoint>>

\* C2: when the request of test_endpoint fails at transport level, no
\* exception reaches the caller: the run goes on, and the cell holds an
\* EndpointResult with status_code 0, a status text naming the failure
\* category and the failure's message as body.
C2_TransportFailureIsAResult ==
    /\ raised.raised => raised.error \notin {e.type : e \in RequestErrors}
    /\ outcome.kind = "error" =>
          /\ pc \in Modes
          /\ exit_code = -1
          /\ sent[Len(sent)].mode = pc
          /\ results[LastCell].status_code = 0
          /\ results[LastCell].status_text = "Error: " \o outcome.type
          /\ results[LastCell].body = outcome.message

C2_Witness ==
    /\ pc = "hawk"
    /\ stage = "matrix"
    /\ outcome.kind = "error"
    /\ outcome.type = "ReadTimeout"
    /\ LastCell = <<"service_b", "regression">>
    /\ results[LastCell].status_text = "Error: ReadTimeout"

AllCells == ServiceSet \X EndpointSet

FailedCells == {cell \in DOMAIN results : results[cell].status_code = 0}

\* While a run holds a failed cell it is inside run_mode with no exception
\* raised, and once it has returned every cell is recorded, every failed cell
\* is a mismatch record and the run's result is failure.
C3_FailedCellsCounted ==
    FailedCells # {} =>
        /\ pc \in Modes
        /\ ~raised.raised
        /\ stage = "returned" =>
              /\ DOMAIN results = AllCells
              /\ \A cell \in FailedCells :
                    \E i \in DOMAIN mismatches :
                        /\ mismatches[i].service = cell[1]
                        /\ mismatches[i].endpoint = cell[2]
                        /\ mismatches[i].endpoint_result.status_code = 0
              /\ ret = FALSE

\* From a state of the dispatch loops that holds a failed cell, the next step
\* dispatches the next cell and keeps what is recorded, or, after the ninth
\* cell, reports.
C3_MatrixGoesOn ==
    (stage = "matrix" /\ FailedCells # {}) =>
        \/ /\ done_cells < NumCells
           /\ stage' = "matrix"
           /\ done_cells' = done_cells + 1
           /\ DOMAIN results' = DOMAIN results \cup {CellAt(done_cells + 1)}
           /\ \A cell \in DOMAIN results : results'[cell] = results[cell]
        \/ /\ done_cells = NumCells
           /\ stage' = "returned"
           /\ results' = results

\* C3: a transport failure in a cell does not abort the matrix: the remaining
\* cells are still dispatched and recorded, and the failed cell (status 0) is
\* counted as a mismatch whatever its expected verdict, so the run reports
\* failure.
C3_TransportFailureDoesNotAbort ==
    []C3_FailedCellsCounted /\ [][C3_MatrixGoesOn]_vars

C3_Witness ==
    /\ stage = "returned"
    /\ DOMAIN results = AllCells
    /\ results[<<"service_a", "sentiment">>].status_code = 0
    /\ results[<<"service_a", "classification">>].status_code = 0
    /\ results[<<"service_c", "classification">>].status_code = 200
    /\ Len(mismatches) = 2
    /\ ret = FALSE

RequestsOf(mode) == SelectSeq(sent, LAMBDA request : request.mode = mode)

\* C4: with both scheme flags given, whatever failure occurs in one scheme
\* run (a mismatch, a transport failure, a credential or configuration
\* error), the other scheme run still executes, and the exit status reflects
\* both.
C4_BothPhasesRun ==
    (apisix /\ hawk /\ pc = "done") =>
        /\ started = {"apisix", "hawk"}
        /\ exit_code = 0 <=>
              /\ off_matrix = {}
              /\ Len(RequestsOf("apisix")) = NumCells
              /\ Len(RequestsOf("hawk")) = NumCells

\* C5: when a consumer's private-key file is absent, the bearer scheme run
\* aborts before any request is dispatched, the exit code is 1, and the other
\* scheme, if selected, still runs.
C5_MissingKeyFile ==
    (pc = "done" /\ raised.raised /\ raised.error = "FileNotFoundError") =>
        /\ RequestsOf("apisix") = <<>>
        /\ exit_code = 1
        /\ hawk => "hawk" \in started

\* The shared-key variables that are unset or empty.
MissingKeys == {n \in required_vars : n \notin DOMAIN environ \/ environ[n] = ""}

\* C6: if after the key-file load a shared-key variable is unset or empty,
\* the signed-header run stops before any request is sent, reports exactly
\* the names of the missing variables and returns failure; no cell is
\* dispatched, not even for a consumer whose key is present.
C6_MissingKeyStopsRun ==
    ("hawk" \in started /\ MissingKeys # {}) =>
        /\ RequestsOf("hawk") = <<>>
        /\ headers_made = 0
        /\ ~raised.raised
        /\ pc = "hawk" =>
              /\ stage = "returned"
              /\ ret = FALSE
              /\ Range(missing_vars) = MissingKeys
              /\ Len(missing_vars) = Cardinality(MissingKeys)
              /\ results = <<>>
        /\ pc # "hawk" => ~overall_success

C6_Witness ==
    /\ pc = "hawk"
    /\ stage = "returned"
    /\ loaded_count = 2
    /\ required_vars \subseteq DOMAIN environ
    /\ environ["SERVICE_A_HAWK_KEY"] = "envkey"
    /\ environ["SERVICE_B_HAWK_KEY"] = "filekey"
    /\ environ["SERVICE_C_HAWK_KEY"] = ""
    /\ missing_vars = <<"SERVICE_C_HAWK_KEY">>
    /\ sent = <<>>

\* C7: with neither scheme flag set the invocation ends with exit code 2, no
\* credential is generated and no request is sent.
C7_UsageError ==
    (~apisix /\ ~hawk) =>
        /\ pc \in {"main", "done"}
        /\ pc = "done" <=> exit_code = 2
        /\ pc = "main" => exit_code = -1
        /\ sent = <<>>
        /\ started = {}
        /\ tokens_made = 0
        /\ headers_made = 0

C7_Witness ==
    /\ ~apisix
    /\ ~hawk
    /\ pc = "done"
    /\ exit_code = 2
    /\ sent = <<>>

\* A selected scheme run that had no credential setup error and whose nine
\* cells all agree with the canonical matrix.
RunClean(mode) ==
    /\ mode \in started
    /\ Len(RequestsOf(mode)) = NumCells
    /\ mode \notin off_matrix
    /\ ~raised.raised

Selected == {mode \in Modes : (mode = "apisix" /\ apisix) \/ (mode = "hawk" /\ hawk)}

\* C8: with a scheme flag set, the exit code is 0 exactly when every selected
\* scheme run has all nine cells on the canonical matrix and no credential
\* setup error, it is 1 when a selected scheme run fails, and it is never 2.
C8_ExitCode ==
    (apisix \/ hawk) =>
        /\ exit_code # 2
        /\ pc = "done" =>
              /\ exit_code \in {0, 1}
              /\ exit_code = 0 <=> \A mode \in Selected : RunClean(mode)
        /\ pc # "done" => exit_code = -1

C8_Witness ==
    /\ apisix
    /\ hawk
    /\ pc = "done"
    /\ exit_code = 0
    /\ Len(sent) = 2 * NumCells

\* The position of x in the sequence s.
Pos(s, x) == CHOOSE i \in DOMAIN s : s[i] = x

\* The rank of a cell in the SERVICES-then-ENDPOINTS enumeration.
Rank(service, endpoint) ==
    (Pos(SERVICES, service) - 1) * Len(ENDPOINTS) + Pos(ENDPOINTS, endpoint)

\* In a run that passed credential setup, the requests sent so far are the
\* first cells of the enumeration, one request each, and each recorded result
\* sits under the cell of its own request.
C9_OneRequestPerCell ==
    /\ (pc \in Modes /\ stage \in {"matrix", "returned"} /\ missing_vars = <<>>) =>
          LET mine == RequestsOf(pc)
          IN  /\ Len(mine) = done_cells
              /\ \A k \in DOMAIN mine : Rank(mine[k].service, mine[k].endpoint) = k
              /\ DOMAIN results = {<<mine[k].service, mine[k].endpoint>> : k \in DOMAIN mine}
              /\ stage = "returned" => Len(mine) = NumCells
              /\ outcome.kind = "response" =>
                    results[LastCell].status_code = outcome.status_code
    /\ \A mode \in started :
          (pc # mode /\ ~raised.raised) => Len(RequestsOf(mode)) \in {0, NumCells}

\* A dispatch records one more cell and leaves the recorded ones as they are.
C9_RecordedStays ==
    (stage = "matrix" /\ stage' # "none") =>
        \A cell \in DOMAIN results : cell \in DOMAIN results' /\ results'[cell] = results[cell]

\* C9: in a scheme run that passes credential setup, exactly one request is
\* dispatched for each of the nine cells, one at a time, in the
\* SERVICES-then-ENDPOINTS order, none skipped or repeated, and each result
\* is recorded under its own (consumer, endpoint) key.
C9_MatrixOrder ==
    []C9_OneRequestPerCell /\ [][C9_RecordedStays]_vars

C9_Witness ==
    /\ pc = "hawk"
    /\ stage = "returned"
    /\ Len(sent) = 2 * NumCells
    /\ sent[NumCells + 4].service = "service_b"
    /\ sent[NumCells + 4].endpoint = "sentiment"
    /\ results[<<"service_b", "sentiment">>].status_code = 200

\* The cells whose recorded status fails the expectation.
FailingCells ==
    {cell \in DOMAIN results :
        ~result_matches_expectation(results[cell].status_code,
                                    EXPECTED_PERMISSIONS[cell[1]][cell[2]])}

\* C10: after a matrix run the mismatch records are exactly the cells whose
\* recorded status fails result_matches_expectation against
\* EXPECTED_PERMISSIONS, each cell at most once, and the per-mismatch
\* diagnostics come in SERVICES x ENDPOINTS order.
C10_MismatchRecords ==
    (stage = "returned" /\ done_cells = NumCells) =>
        /\ {<<mismatches[i].service, mismatches[i].endpoint>> : i \in DOMAIN mismatches}
              = FailingCells
        /\ Len(mismatches) = Cardinality(FailingCells)
        /\ \A i \in DOMAIN mismatches :
              /\ mismatches[i].expected_allowed
                    = EXPECTED_PERMISSIONS[mismatches[i].service][mismatches[i].endpoint]
              /\ mismatches[i].endpoint_result
                    = results[<<mismatches[i].service, mismatches[i].endpoint>>]
        /\ Len(debug_blocks) = Len(mismatches)
        /\ \A i \in DOMAIN debug_blocks :
              /\ debug_blocks[i].Service = mismatches[i].service
              /\ debug_blocks[i].Endpoint = "/predict/" \o mismatches[i].endpoint
              /\ debug_blocks[i].ActualStatus = mismatches[i].endpoint_result.status_code
        /\ \A i, j \in DOMAIN debug_blocks :
              i < j => Rank(debug_blocks[i].Service, mismatches[i].endpoint)
                          < Rank(debug_blocks[j].Service, mismatches[j].endpoint)

C10_Witness ==
    /\ stage = "returned"
    /\ done_cells = NumCells
    /\ Len(debug_blocks) = 2
    /\ debug_blocks[1].Service = "service_a"
    /\ debug_blocks[1].Endpoint = "/predict/classification"
    /\ debug_blocks[1].ActualStatus = 200
    /\ debug_blocks[2].Service = "service_c"
    /\ debug_blocks[2].ActualStatus = 500

(* ----------------------------- C11 ------------------------------------ *)

DeniedCell == <<"service_b", "sentiment">>

\* The run of Scenario 2: the gateway lets service_b through to sentiment
\* with 200, every other cell answers as the canonical matrix says.
Scenario2 ==
    /\ DOMAIN results = AllCells
    /\ results[DeniedCell].status_code = 200
    /\ \A cell \in AllCells \ {DeniedCell} :
          OnMatrix(results[cell].status_code, cell[1], cell[2])

\* C11: when service_b -> sentiment (a denied cell) gets 200 and all other
\* cells behave as expected, the run reports exactly one mismatch record, for
\* that cell, expected "Denied (401/403)" and actual 200, run_mode returns
\* False; and a process in which some run saw a status off the matrix ends
\* with exit status 1.
C11_SingleDeniedCellAllowed ==
    /\ (pc \in Modes /\ stage = "returned" /\ Scenario2) =>
          /\ Len(mismatches) = 1
          /\ <<mismatches[1].service, mismatches[1].endpoint>> = DeniedCell
          /\ mismatches[1].expected_allowed = FALSE
          /\ mismatches[1].endpoint_result.status_code = 200
          /\ Len(debug_blocks) = 1
          /\ debug_blocks[1].Service = "service_b"
          /\ debug_blocks[1].Endpoint = "/predict/sentiment"
          /\ debug_blocks[1].Expected = "Denied (401/403)"
          /\ debug_blocks[1].ActualStatus = 200
          /\ ret = FALSE
          /\ pc \in off_matrix
    /\ (pc = "final" /\ off_matrix # {}) => ~overall_success
    /\ (pc = "done" /\ off_matrix # {}) => exit_code = 1

C11_Witness ==
    /\ pc = "hawk"
    /\ apisix
    /\ stage = "returned"
    /\ Scenario2
    /\ off_matrix = {"hawk"}
    /\ Len(mismatches) = 1
    /\ debug_blocks[1].Expected = "Denied (401/403)"

(* ----------------------------- C12 ------------------------------------ *)

\* The driver and the evaluator harness together: format_result is called on
\* arbitrary arguments and on the cells of the matrix runs.
InitRender == Init \/ InitEval

NextRender == Next \/ NextEval

SpecRender == InitRender /\ [][NextRender]_vars

MismatchCells ==
    {<<mismatches[i].service, mismatches[i].endpoint>> : i \in DOMAIN mismatches}

\* C12: format_result mirrors result_matches_expectation. Status 0 gives the
\* indeterminate marker; any other status gives the positive marker exactly
\* when result_matches_expectation is true and the negative marker otherwise.
\* In a reported run no cell shown positive is in the mismatch list and every
\* cell not shown positive is in it.
C12_TableMirrorsVerdict ==
    /\ eval_out.given =>
          LET cell == eval_out.cell
              status_code == eval_in.status_code
          IN  /\ (status_code = 0) <=> (cell.marker = "? ERR" /\ cell.colour = "yellow")
              /\ (status_code # 0 /\ eval_out.matches)
                    <=> (cell.marker = "check" /\ cell.colour = "green")
              /\ (status_code # 0 /\ ~eval_out.matches)
                    <=> (cell.marker = "cross" /\ cell.colour = "red")
              /\ cell.code = status_code
    /\ (pc \in Modes /\ stage = "returned" /\ done_cells = NumCells) =>
          /\ DOMAIN table = AllCells
          /\ \A cell \in AllCells :
                /\ (table[cell].marker = "check") <=> (cell \notin MismatchCells)
                /\ (table[cell].marker = "? ERR") <=> (results[cell].status_code = 0)
                /\ table[cell].code = results[cell].status_code

\* A reported run with a positive cell, a negative cell and an indeterminate
\* cell at once.
C12_Witness ==
    /\ pc \in Modes
    /\ stage = "returned"
    /\ done_cells = NumCells
    /\ table[<<"service_a", "sentiment">>].marker = "check"
    /\ table[<<"service_a", "classification">>].marker = "cross"
    /\ table[<<"service_a", "classification">>].code = 500
    /\ table[<<"service_c", "classification">>].marker = "? ERR"
    /\ Len(mismatches) = 2

(* ----------------------------- C13 ------------------------------------ *)

\* C13: in the bearer scheme one token per consumer is made before the matrix
\* and every request of a consumer carries that consumer's token, never
\* another consumer's; in the signed-header scheme an authorization value is
\* built anew for each request, from the consumer's own credential and the
\* request's path.
C13_CredentialLifetimes ==
    /\ \A i \in DOMAIN sent :
          sent[i].mode = "apisix" =>
             /\ sent[i].Authorization.scheme = "JWT"
             /\ sent[i].Authorization.sub = sent[i].service
             /\ \A j \in DOMAIN sent :
                   (sent[j].mode = "apisix" /\ sent[j].service = sent[i].service)
                      => sent[j].Authorization = sent[i].Authorization
             /\ \A j \in DOMAIN sent :
                   (sent[j].mode = "apisix" /\ sent[j].service # sent[i].service)
                      => sent[j].Authorization # sent[i].Authorization
    /\ RequestsOf("apisix") # <<>> => tokens_made = Len(SERVICES)
    /\ \A i \in DOMAIN sent :
          sent[i].mode = "hawk" =>
             /\ sent[i].Authorization.scheme = "Hawk"
             /\ sent[i].Authorization.id = HAWK_CREDENTIALS[sent[i].service].id
             /\ sent[i].Authorization.path = "/predict/" \o sent[i].endpoint
             /\ sent[i].Authorization.method = "POST"
             /\ \A j \in DOMAIN sent : j # i => sent[j].Authorization # sent[i].Authorization
    /\ headers_made = Len(RequestsOf("hawk"))

C13_Witness ==
    /\ pc = "done"
    /\ Len(RequestsOf("apisix")) = NumCells
    /\ Len(RequestsOf("hawk")) = NumCells
    /\ tokens_made = Len(SERVICES)
    /\ headers_made = NumCells
    /\ sent[4].Authorization.sub = "service_b"
    /\ sent[13].Authorization.nonce # sent[14].Authorization.nonce

(* ----------------------------- C14 ------------------------------------ *)

\* C14: every variable present in the environment before
\* load_hawk_keys_from_env_file runs has the same value afterwards, whatever
\* the file holds.
C14_ExistingNeverOverridden ==
    load_out.given =>
       \A name \in DOMAIN load_out.before :
          name \in DOMAIN environ /\ environ[name] = load_out.before[name]

(* ----------------------------- C19 ------------------------------------ *)

\* C19: load_hawk_keys_from_env_file assigns only variables of the required
\* shared-key set and leaves every other variable as it was, none added and
\* none changed; the count it returns is the number of assignments it made;
\* when the file does not exist it returns 0 and changes nothing.
C19_LoadFrame ==
    load_out.given =>
       /\ \A i \in DOMAIN load_out.assigned : load_out.assigned[i][1] \in required_vars
       /\ DOMAIN environ \ required_vars = DOMAIN load_out.before \ required_vars
       /\ \A name \in DOMAIN environ \ required_vars : environ[name] = load_out.before[name]
       /\ \A name \in DOMAIN environ \cap required_vars :
             \/ name \in DOMAIN load_out.before /\ environ[name] = load_out.before[name]
             \/ \E i \in DOMAIN load_out.assigned :
                   load_out.assigned[i] = <<name, environ[name]>>
       /\ load_out.loaded = Len(load_out.assigned)
       /\ ~load_in.env_file.exists => (load_out.loaded = 0 /\ environ = load_out.before)

\* Two assignments from a file that also holds a line for another variable:
\* the quoted value is set without its quotes, OTHER_KEY stays unset.
C19_Witness ==
    /\ load_out.given
    /\ load_out.loaded = 1
    /\ load_out.assigned = << <<"SERVICE_B_HAWK_KEY", "filekey">> >>
    /\ load_in.env_file.lines[1][1] = "OTHER_KEY"
    /\ "OTHER_KEY" \notin DOMAIN environ
    /\ environ["PATH"] = "/usr/bin"
    /\ "SERVICE_B_HAWK_KEY" \notin DOMAIN load_out.before

(* ----------------------------- C15 ------------------------------------ *)

\* The credentials of the running scheme are there for every consumer.
CredentialsReady(mode) ==
    IF mode = "apisix"
    THEN DOMAIN tokens = ServiceSet
    ELSE MissingKeys = {} /\ missing_vars = <<>>

C15_StagesInOrder_state ==
    /\ stage \in {"none", "matrix", "returned"}
    /\ stage # "none" => pc \in Modes
    /\ stage = "matrix" => CredentialsReady(pc)
    /\ \A mode \in Modes : RequestsOf(mode) # <<>> => mode \in started
    /\ (table # <<>> \/ mismatches # <<>> \/ debug_blocks # <<>>) =>
          /\ stage = "returned"
          /\ done_cells = NumCells
          /\ DOMAIN results = AllCells
          /\ DOMAIN table = AllCells
    /\ (stage = "returned" /\ done_cells < NumCells) =>
          /\ pc = "hawk"
          /\ missing_vars # <<>>
          /\ done_cells = 0
          /\ RequestsOf("hawk") = <<>>
    /\ (raised.raised /\ raised.error = "FileNotFoundError") => RequestsOf("apisix") = <<>>

C15_StagesInOrder_step ==
    /\ stage = "none" =>
          /\ stage' \in {"none", "matrix", "returned"}
          /\ sent' = sent
          /\ stage' = "matrix" => done_cells' = 0 /\ results' = <<>>
    /\ stage = "matrix" =>
          /\ stage' \in {"matrix", "returned"} \/ (stage' = "none" /\ raised'.raised)
          /\ stage' = "matrix" =>
                /\ done_cells' = done_cells + 1
                /\ Len(sent') = Len(sent) + 1
                /\ sent'[Len(sent')].mode = pc
                /\ DOMAIN results' = {CellAt(k) : k \in 1..done_cells'}
          /\ stage' = "returned" =>
                /\ done_cells = NumCells
                /\ sent' = sent
                /\ results' = results
    /\ stage = "returned" =>
          /\ stage' = "none"
          /\ sent' = sent

\* C15: a scheme run goes through its stages in order: the credentials of all
\* consumers are ready before the first request is dispatched, all nine cells
\* are recorded before the table or a mismatch diagnostic is made, and a
\* credential setup error ends the run with no request dispatched.
C15_StagesInOrder == []C15_StagesInOrder_state /\ [][C15_StagesInOrder_step]_vars

C15_Witness ==
    /\ pc = "hawk"
    /\ apisix
    /\ stage = "returned"
    /\ done_cells = NumCells
    /\ DOMAIN table = AllCells
    /\ Len(RequestsOf("hawk")) = NumCells
    /\ Len(RequestsOf("apisix")) = NumCells
    /\ loaded_count = 1

(* ----------------------------- C16 ------------------------------------ *)

\* The process is a single thread that keeps running whenever it can take a
\* step: the interpreter does not stop between two statements.
FairSpec == Spec /\ WF_vars(Next)

Terminal == pc = "done" /\ exit_code \in {0, 1, UsageExitCode}

\* C16: every invocation eventually reaches a terminal exit state, with exit
\* status 0, 1 or 2, whatever the flags, the responses, the transport
\* failures and the configuration errors: a request that gets no answer is
\* ended by its timeout and recorded as a transport failure.
C16_Terminates == <>Terminal

\* Both schemes ran to the end with answers off the matrix in each.
C16_Witness ==
    /\ Terminal
    /\ exit_code = 1
    /\ ~raised.raised
    /\ off_matrix = Modes
    /\ Len(sent) = 2 * NumCells

(* ----------------------------- C17 ------------------------------------ *)

C17_PermissionTable_state ==
    /\ DOMAIN permissions = ServiceSet
    /\ \A service \in ServiceSet :
          /\ DOMAIN permissions[service] = EndpointSet
          /\ \A endpoint \in EndpointSet :
                /\ permissions[service][endpoint] \in BOOLEAN
                /\ permissions[service][endpoint] = (<<service, endpoint>> \in CanonicalAllowed)
    /\ Cardinality(ServiceSet) = Len(SERVICES)
    /\ Cardinality(EndpointSet) = Len(ENDPOINTS)

\* C17: EXPECTED_PERMISSIONS holds one verdict for every pair of
\* SERVICES x ENDPOINTS and for no other key, the verdicts are those of the
\* canonical matrix (service_a: allow, allow, deny; service_b: deny, deny,
\* allow; service_c: allow, deny, allow), and no step of a run changes it.
C17_PermissionTable == []C17_PermissionTable_state /\ [][permissions' = permissions]_vars

\* Both scheme runs have read the table for their reports.
C17_Witness ==
    /\ pc = "done"
    /\ started = Modes
    /\ exit_code = 0
    /\ Len(sent) = 2 * NumCells
    /\ permissions["service_c"]["regression"] = FALSE

(* ----------------------------- C18 ------------------------------------ *)

\* The variables build_hawk_headers looks up, over all consumers.
LookedUp == {HAWK_CREDENTIALS[service].env : service \in ServiceSet}

\* C18: within a scheme run no call of test_endpoint raises RuntimeError: in
\* the bearer scheme the token of every consumer of SERVICES is there (never
\* None), in the signed-header scheme every variable build_hawk_headers looks
\* up was validated non-empty, the validated names being exactly the names
\* looked up, and the environment stays as validated during the matrix.
C18_NoRuntimeError ==
    /\ ~(raised.raised /\ raised.error = "RuntimeError")
    /\ (pc = "apisix" /\ stage = "matrix") =>
          \A service \in ServiceSet : service \in DOMAIN tokens
    /\ Range(HawkEnvNames) = LookedUp
    /\ (pc = "hawk" /\ stage = "matrix") =>
          \A service \in ServiceSet :
             /\ getenv_truthy(environ, HAWK_CREDENTIALS[service].env)
             /\ ~build_hawk_headers(environ, service, "/predict/sentiment", "POST", 0).raised

\* All nine signed requests have gone out on keys of which one came from the
\* key file.
C18_Witness ==
    /\ pc = "hawk"
    /\ stage = "matrix"
    /\ done_cells = NumCells
    /\ Len(RequestsOf("hawk")) = NumCells
    /\ loaded_count = 1
    /\ environ["SERVICE_A_HAWK_KEY"] = "filekey"
    /\ ~raised.raised

====
